---- MODULE Spec2Model ----
(***************************************************************************)
(* Administrative (DDL) pathway of greptimedb:                             *)
(*   - src/datanode/src/sql/drop_table.rs : SqlHandler::drop_table         *)
(*   - src/client/src/admin.rs            : Admin and admin_result_to_output *)
(***************************************************************************)
EXTENDS Integers, Sequences, FiniteSets, TLC

(* ------------------------------ bounds --------------------------------- *)

\* concurrent SqlHandler::drop_table invocations
NumHandlers == 2

\* Option<T>
None == <<>>
Some(x) == <<x>>
Unwrap(o) == o[1]

\* Result<T, E>
Ok(v) == [ok |-> TRUE, val |-> v]
Err(e) == [ok |-> FALSE, err |-> e]
\* no value returned yet
Pending == [pending |-> TRUE]

(* ======================= datanode: drop_table ========================== *)

CatalogNames == {"greptime"}
SchemaNames == {"public", "demo"}
TableNames == {"t1", "t2"}

\* table::requests::DropTableRequest
DropTableRequest == [catalog_name : CatalogNames, schema_name : SchemaNames, table_name : TableNames]

\* catalog::DeregisterTableRequest built from the drop request
DeregisterTableRequest(req) ==
    [catalog |-> req.catalog_name, schema |-> req.schema_name, table_name |-> req.table_name]

\* TableReference borrowed from the drop request
TableReference(req) ==
    [catalog |-> req.catalog_name, schema |-> req.schema_name, table |-> req.table_name]

\* TableReference's Display: catalog.schema.table
to_string(ref) == ref.catalog \o "." \o ref.schema \o "." \o ref.table

\* the fully qualified name computed at the top of drop_table
table_full_name(req) == to_string(TableReference(req))

\* key of a table in the catalog and in the engine
TableKey(c, s, t) == <<c, s, t>>
AllTables == {TableKey(r.catalog_name, r.schema_name, r.table_name) : r \in DropTableRequest}

\* errors the collaborators may answer with
CatalogErrors == {"catalog::TableNotExist", "catalog::Internal"}
EngineErrors == {"engine::TableNotFound", "engine::Io"}

\* error::DropTableSnafu { table_name } wrapping the boxed collaborator error
DropTableError(name, source) == [kind |-> "DropTable", table_name |-> name, source |-> source]

\* common_query::Output
AffectedRows(n) == [AffectedRows |-> n]

Handlers == 1 .. NumHandlers

VARIABLES
    registered,   \* tables the catalog manager has an entry for
    stored,       \* tables whose physical storage the engine holds
    hpc,          \* position of each drop_table invocation
    hreq,         \* the DropTableRequest of each invocation
    hret,         \* what each invocation returned
    deregCalls,   \* deregister_table calls issued by each invocation
    engineCalls,  \* engine drop_table calls issued by each invocation
    deregAns,     \* what the catalog answered to each invocation
    engineAns     \* what the engine answered to each invocation

hvars == <<registered, stored, hpc, hreq, hret, deregCalls, engineCalls, deregAns, engineAns>>

VARIABLES
    admin,        \* the Admin struct: name and transport handle
    cpc,          \* position of each call on the Admin
    centry,       \* the entry point each call came in through
    carg,         \* the argument each call was given
    cexprs,       \* the Vec<AdminExpr> each call handed to do_requests
    sent,         \* the AdminRequests each call sent over the transport
    cresp,        \* the transport's answer to each call
    cret,         \* what each call returned
    removed       \* whether the call executed remove(0)

avars == <<admin, cpc, centry, carg, cexprs, sent, cresp, cret, removed>>

VARIABLES
    decIn,        \* the AdminResult handed to admin_result_to_output
    decOut        \* what admin_result_to_output returned

dvars == <<decIn, decOut>>

vars == <<hvars, avars, dvars>>

InitHandler ==
    /\ registered = AllTables
    /\ stored = AllTables
    /\ hpc = [h \in Handlers |-> "idle"]
    /\ hreq = [h \in Handlers |-> None]
    /\ hret = [h \in Handlers |-> Pending]
    /\ deregCalls = [h \in Handlers |-> 0]
    /\ engineCalls = [h \in Handlers |-> 0]
    /\ deregAns = [h \in Handlers |-> Pending]
    /\ engineAns = [h \in Handlers |-> Pending]

\* DropTableBegin that issues both collaborator calls at once and joins them
DropTableBegin_Joined(h, req) ==
    /\ hpc[h] = "idle"
    /\ hreq' = [hreq EXCEPT ![h] = Some(req)]
    /\ hret' = [hret EXCEPT ![h] = Pending]
    /\ deregCalls' = [deregCalls EXCEPT ![h] = 1]
    /\ engineCalls' = [engineCalls EXCEPT ![h] = 1]
    /\ hpc' = [hpc EXCEPT ![h] = "deregistering"]
    /\ UNCHANGED <<registered, stored, deregAns, engineAns, avars, dvars>>

\* drop_table is entered: the requests are built and deregister_table is
\* issued; the invocation suspends on the catalog's answer.
DropTableBegin(h, req) ==
    /\ hpc[h] = "idle"
    /\ hreq' = [hreq EXCEPT ![h] = Some(req)]
    /\ hret' = [hret EXCEPT ![h] = Pending]
    /\ deregCalls' = [deregCalls EXCEPT ![h] = 1]
    /\ engineCalls' = [engineCalls EXCEPT ![h] = 0]
    /\ hpc' = [hpc EXCEPT ![h] = "deregistering"]
    /\ UNCHANGED <<registered, stored, deregAns, engineAns, avars, dvars>>

\* CatalogManager::deregister_table succeeds: the entry is gone
CatalogDeregister(dreq) == registered \ {TableKey(dreq.catalog, dreq.schema, dreq.table_name)}

\* TableEngine::drop_table succeeds: the physical table is gone
EngineDrop(req) == stored \ {TableKey(req.catalog_name, req.schema_name, req.table_name)}

\* deregister_table answered Ok: drop_table goes on to the engine's
\* drop_table and suspends on its answer.
DeregisterOk(h) ==
    /\ hpc[h] = "deregistering"
    /\ registered' = CatalogDeregister(DeregisterTableRequest(Unwrap(hreq[h])))
    /\ engineCalls' = [engineCalls EXCEPT ![h] = @ + 1]
    /\ hpc' = [hpc EXCEPT ![h] = "dropping"]
    /\ deregAns' = [deregAns EXCEPT ![h] = Ok(<<>>)]
    /\ UNCHANGED <<stored, hreq, hret, deregCalls, engineAns, avars, dvars>>

\* DeregisterErr with the `?` dropped: the catalog's error is ignored and
\* the engine's drop_table is issued all the same
DeregisterErr_GoesOn(h, e) ==
    /\ hpc[h] = "deregistering"
    /\ engineCalls' = [engineCalls EXCEPT ![h] = @ + 1]
    /\ hpc' = [hpc EXCEPT ![h] = "dropping"]
    /\ deregAns' = [deregAns EXCEPT ![h] = Err(e)]
    /\ UNCHANGED <<registered, stored, hreq, hret, deregCalls, engineAns, avars, dvars>>

\* DeregisterErr that calls deregister_table again on a failure
DeregisterErr_Retry(h, e) ==
    /\ hpc[h] = "deregistering"
    /\ deregCalls' = [deregCalls EXCEPT ![h] = @ + 1]
    /\ deregAns' = [deregAns EXCEPT ![h] = Err(e)]
    /\ UNCHANGED <<registered, stored, hpc, hreq, hret, engineCalls, engineAns, avars, dvars>>

\* DeregisterErr whose error context is the bare table name
DeregisterErr_ShortName(h, e) ==
    /\ hpc[h] = "deregistering"
    /\ hret' = [hret EXCEPT ![h] = Err(DropTableError(Unwrap(hreq[h]).table_name, e))]
    /\ hpc' = [hpc EXCEPT ![h] = "done"]
    /\ deregAns' = [deregAns EXCEPT ![h] = Err(e)]
    /\ UNCHANGED <<registered, stored, hreq, deregCalls, engineCalls, engineAns, avars, dvars>>

\* DeregisterErr that waits for the catalog again instead of returning
DeregisterErr_Waits(h, e) ==
    /\ hpc[h] = "deregistering"
    /\ deregAns' = [deregAns EXCEPT ![h] = Err(e)]
    /\ UNCHANGED <<registered, stored, hpc, hreq, hret, deregCalls, engineCalls, engineAns, avars, dvars>>

\* deregister_table answered Err(e): `?` returns the wrapped error
DeregisterErr(h, e) ==
    /\ hpc[h] = "deregistering"
    /\ hret' = [hret EXCEPT ![h] = Err(DropTableError(table_full_name(Unwrap(hreq[h])), e))]
    /\ hpc' = [hpc EXCEPT ![h] = "done"]
    /\ deregAns' = [deregAns EXCEPT ![h] = Err(e)]
    /\ UNCHANGED <<registered, stored, hreq, deregCalls, engineCalls, engineAns, avars, dvars>>

\* the engine's drop_table answered Ok: log and return AffectedRows(1)
EngineDropOk(h) ==
    /\ hpc[h] = "dropping"
    /\ stored' = EngineDrop(Unwrap(hreq[h]))
    /\ hret' = [hret EXCEPT ![h] = Ok(AffectedRows(1))]
    /\ hpc' = [hpc EXCEPT ![h] = "done"]
    /\ engineAns' = [engineAns EXCEPT ![h] = Ok(<<>>)]
    /\ UNCHANGED <<registered, hreq, deregCalls, engineCalls, deregAns, avars, dvars>>

\* EngineDropErr with a rollback: the table is registered again before the
\* error is returned
EngineDropErr_Rollback(h, e) ==
    /\ hpc[h] = "dropping"
    /\ registered' = registered \cup {TableKey(Unwrap(hreq[h]).catalog_name,
                                                Unwrap(hreq[h]).schema_name,
                                                Unwrap(hreq[h]).table_name)}
    /\ hret' = [hret EXCEPT ![h] = Err(DropTableError(table_full_name(Unwrap(hreq[h])), e))]
    /\ hpc' = [hpc EXCEPT ![h] = "done"]
    /\ engineAns' = [engineAns EXCEPT ![h] = Err(e)]
    /\ UNCHANGED <<stored, hreq, deregCalls, engineCalls, deregAns, avars, dvars>>

\* EngineDropErr with the engine's error swallowed: success is reported
EngineDropErr_Swallowed(h, e) ==
    /\ hpc[h] = "dropping"
    /\ hret' = [hret EXCEPT ![h] = Ok(AffectedRows(1))]
    /\ hpc' = [hpc EXCEPT ![h] = "done"]
    /\ engineAns' = [engineAns EXCEPT ![h] = Err(e)]
    /\ UNCHANGED <<registered, stored, hreq, deregCalls, engineCalls, deregAns, avars, dvars>>

\* the engine's drop_table answered Err(e): `?` returns the wrapped error
EngineDropErr(h, e) ==
    /\ hpc[h] = "dropping"
    /\ hret' = [hret EXCEPT ![h] = Err(DropTableError(table_full_name(Unwrap(hreq[h])), e))]
    /\ hpc' = [hpc EXCEPT ![h] = "done"]
    /\ engineAns' = [engineAns EXCEPT ![h] = Err(e)]
    /\ UNCHANGED <<registered, stored, hreq, deregCalls, engineCalls, deregAns, avars, dvars>>

NextHandler ==
    \/ \E h \in Handlers, req \in DropTableRequest : DropTableBegin(h, req)
    \/ \E h \in Handlers : DeregisterOk(h)
    \/ \E h \in Handlers, e \in CatalogErrors : DeregisterErr(h, e)
    \/ \E h \in Handlers : EngineDropOk(h)
    \/ \E h \in Handlers, e \in EngineErrors : EngineDropErr(h, e)


(* ========================== client: Admin ============================== *)

\* crate::database::PROTOCOL_VERSION
PROTOCOL_VERSION == 1

\* longest batch handed to do_requests
MaxExprs == 2
\* longest result sequence a response carries
MaxResults == 3
\* calls on one shared Admin
NumCallers == 2

Callers == 1 .. NumCallers
\* the caller of the one-call-at-a-time specification
MainCaller == CHOOSE c \in Callers : \A d \in Callers : c <= d

AdminNames == {"greptime", "admin"}
ClientHandles == {"channel"}

\* the typed DDL payloads (CreateExpr, AlterExpr, DropTableExpr, CreateDatabaseExpr)
Payloads == {"p1", "p2"}
Variants == {"Create", "Alter", "DropTable", "CreateDatabase"}

\* api::v1::ExprHeader
ExprHeader(v) == [version |-> v]

\* api::v1::AdminExpr with header and expr oneof
AdminExpr(h, e) == [header |-> h, expr |-> e]

\* admin_expr::Expr::<Variant>(payload)
Expr(variant, payload) == [variant |-> variant, payload |-> payload]

\* BuildExpr that leaves the version header out
BuildExpr_NoHeader(variant, payload) == AdminExpr(None, Some(Expr(variant, payload)))

\* the envelope create / alter / drop_table / create_database build
BuildExpr(variant, payload) ==
    AdminExpr(Some(ExprHeader(PROTOCOL_VERSION)), Some(Expr(variant, payload)))

\* every AdminExpr a caller of do_request may pass
AdminExprs ==
    { AdminExpr(h, e) : h \in {None, Some(ExprHeader(PROTOCOL_VERSION))},
                        e \in {None} \cup {Some(Expr(v, p)) : v \in Variants, p \in Payloads} }

\* the envelopes the typed entry points build
BuiltExprs == {BuildExpr(v, p) : v \in Variants, p \in Payloads}

\* sequences over S of length lo .. hi
SeqsOf(S, lo, hi) == UNION {[1 .. n -> S] : n \in lo .. hi}

\* api::v1::AdminRequest
AdminRequest(name, exprs) == [name |-> name, exprs |-> exprs]

\* api::v1::ResponseHeader
ResponseHeader(code, msg) == [code |-> code, err_msg |-> msg]

\* admin_result::Result::Mutate(MutateResult { success, failure })
Mutate(success, failure) == [Mutate |-> [success |-> success, failure |-> failure]]

\* api::v1::AdminResult
AdminResult(h, r) == [header |-> h, result |-> r]

\* results a response carries: one of each shape the decoder tells apart
WireResults ==
    { AdminResult(None, Some(Mutate(1, 0))),
      AdminResult(Some(ResponseHeader(1, "boom")), Some(Mutate(0, 0))),
      AdminResult(Some(ResponseHeader(0, "")), None),
      AdminResult(Some(ResponseHeader(0, "")), Some(Mutate(1, 1))),
      AdminResult(Some(ResponseHeader(0, "")), Some(Mutate(1, 0))) }

\* transport-level failures of Client::admin
TransportErrors == {[kind |-> "Transport", msg |-> "unavailable"], [kind |-> "Transport", msg |-> "timeout"]}

\* what Client::admin resolves to: Ok(AdminResponse { results }) or Err
TransportAnswers ==
    {Ok([results |-> rs]) : rs \in SeqsOf(WireResults, 0, MaxResults)}
        \cup {Err(e) : e \in TransportErrors}

\* error::MissingResultSnafu { name, expected, actual }
MissingResult(name, expected, actual) ==
    [kind |-> "MissingResult", name |-> name, expected |-> expected, actual |-> actual]

\* a Rust panic
Panic == [panic |-> TRUE]

InitAdmin ==
    /\ admin \in [name : AdminNames, client : ClientHandles]
    /\ cpc = [c \in Callers |-> "idle"]
    /\ centry = [c \in Callers |-> "none"]
    /\ carg = [c \in Callers |-> None]
    /\ cexprs = [c \in Callers |-> <<>>]
    /\ sent = [c \in Callers |-> <<>>]
    /\ cresp = [c \in Callers |-> Pending]
    /\ cret = [c \in Callers |-> Pending]
    /\ removed = [c \in Callers |-> FALSE]

\* do_requests up to its await: count the exprs, build the AdminRequest with
\* the Admin's name, hand it to Client::admin.
DoRequestsSend(c, entry, arg, exprs) ==
    /\ cpc[c] = "idle"
    /\ centry' = [centry EXCEPT ![c] = entry]
    /\ carg' = [carg EXCEPT ![c] = Some(arg)]
    /\ cexprs' = [cexprs EXCEPT ![c] = exprs]
    /\ sent' = [sent EXCEPT ![c] = Append(@, AdminRequest(admin.name, exprs))]
    /\ cpc' = [cpc EXCEPT ![c] = "awaiting"]
    /\ UNCHANGED <<admin, cresp, cret, removed, hvars, dvars>>

\* Admin::create
create(c, expr) == DoRequestsSend(c, "create", expr, <<BuildExpr("Create", expr)>>)

\* Admin::alter
alter(c, expr) == DoRequestsSend(c, "alter", expr, <<BuildExpr("Alter", expr)>>)

\* Admin::drop_table
drop_table(c, expr) == DoRequestsSend(c, "drop_table", expr, <<BuildExpr("DropTable", expr)>>)

\* Admin::create_database
create_database(c, expr) ==
    DoRequestsSend(c, "create_database", expr, <<BuildExpr("CreateDatabase", expr)>>)

\* Admin::do_request
do_request(c, expr) == DoRequestsSend(c, "do_request", expr, <<expr>>)

\* Admin::do_requests called with a batch
do_requests(c, exprs) == DoRequestsSend(c, "do_requests", exprs, exprs)

\* do_requests_result with expected and actual exchanged in the error
do_requests_result_Swapped(expr_count, answer) ==
    IF ~answer.ok THEN Err(answer.err)
    ELSE LET results == answer.val.results IN
         IF Len(results) = expr_count
         THEN Ok(results)
         ELSE Err(MissingResult("admin_results", Len(results), expr_count))

\* do_requests_result without the ensure!
do_requests_result_NoEnsure(expr_count, answer) ==
    IF ~answer.ok THEN Err(answer.err) ELSE Ok(answer.val.results)

\* do_requests_result that tolerates extra results and keeps the first
\* expr_count of them
do_requests_result_Prefix(expr_count, answer) ==
    IF ~answer.ok THEN Err(answer.err)
    ELSE LET results == answer.val.results IN
         IF Len(results) >= expr_count
         THEN Ok(SubSeq(results, 1, expr_count))
         ELSE Err(MissingResult("admin_results", expr_count, Len(results)))

\* do_requests_result whose ensure! compares against expr_count + 1
\* (counting the request itself)
do_requests_result_OffByOne(expr_count, answer) ==
    IF ~answer.ok THEN Err(answer.err)
    ELSE LET results == answer.val.results IN
         IF Len(results) = expr_count + 1
         THEN Ok(results)
         ELSE Err(MissingResult("admin_results", expr_count, Len(results)))

\* do_requests after its await: `?` on the transport's answer, then the
\* ensure! on the result count.
do_requests_result(expr_count, answer) ==
    IF ~answer.ok THEN Err(answer.err)
    ELSE LET results == answer.val.results IN
         IF Len(results) = expr_count
         THEN Ok(results)
         ELSE Err(MissingResult("admin_results", expr_count, Len(results)))

\* Vec::remove(0): panics on an empty vector
remove0(v) == IF Len(v) = 0 THEN Panic ELSE v[1]

\* `Ok(self.do_requests(vec![expr]).await?.remove(0))`
single_result(r) ==
    IF ~r.ok THEN r
    ELSE LET first == remove0(r.val) IN
         IF first = Panic THEN Panic ELSE Ok(first)

\* the entry points that hand do_requests a one-element vector and take
\* the first result
SingleEntries == {"create", "alter", "drop_table", "create_database", "do_request"}

\* TransportAnswer that sends the request again on a transport failure
TransportAnswer_Resend(c, answer) ==
    /\ cpc[c] = "awaiting"
    /\ cresp' = [cresp EXCEPT ![c] = answer]
    /\ IF ~answer.ok
       THEN /\ sent' = [sent EXCEPT ![c] = Append(@, AdminRequest(admin.name, cexprs[c]))]
            /\ UNCHANGED <<cpc, cret, removed>>
       ELSE /\ LET r == do_requests_result(Len(cexprs[c]), answer) IN
               IF centry[c] \in SingleEntries
               THEN /\ cret' = [cret EXCEPT ![c] = single_result(r)]
                    /\ removed' = [removed EXCEPT ![c] = r.ok]
               ELSE /\ cret' = [cret EXCEPT ![c] = r]
                    /\ UNCHANGED removed
            /\ cpc' = [cpc EXCEPT ![c] = "done"]
            /\ UNCHANGED sent
    /\ UNCHANGED <<admin, centry, carg, cexprs, hvars, dvars>>

\* TransportAnswer on an Admin that keeps the last response in a field of
\* its own and reads the results from there
TransportAnswer_SharedBuffer(c, answer) ==
    /\ cpc[c] = "awaiting"
    /\ cresp' = [cresp EXCEPT ![c] = answer]
    /\ LET others == {d \in Callers \ {c} : cpc[d] = "done"}
           buffered == IF others = {} THEN answer ELSE cresp[CHOOSE d \in others : TRUE]
           r == do_requests_result(Len(cexprs[c]), buffered) IN
       IF centry[c] \in SingleEntries
       THEN /\ cret' = [cret EXCEPT ![c] = single_result(r)]
            /\ removed' = [removed EXCEPT ![c] = r.ok]
       ELSE /\ cret' = [cret EXCEPT ![c] = r]
            /\ UNCHANGED removed
    /\ cpc' = [cpc EXCEPT ![c] = "done"]
    /\ UNCHANGED <<admin, centry, carg, cexprs, sent, hvars, dvars>>

\* the transport answers a call: do_requests resumes and returns, and the
\* single-expression entry points take the first result.
TransportAnswer(c, answer) ==
    /\ cpc[c] = "awaiting"
    /\ cresp' = [cresp EXCEPT ![c] = answer]
    /\ LET r == do_requests_result(Len(cexprs[c]), answer) IN
       IF centry[c] \in SingleEntries
       THEN /\ cret' = [cret EXCEPT ![c] = single_result(r)]
            /\ removed' = [removed EXCEPT ![c] = r.ok]
       ELSE /\ cret' = [cret EXCEPT ![c] = r]
            /\ UNCHANGED removed
    /\ cpc' = [cpc EXCEPT ![c] = "done"]
    /\ UNCHANGED <<admin, centry, carg, cexprs, sent, hvars, dvars>>

NextAdmin ==
    \/ \E expr \in Payloads : create(MainCaller, expr)
    \/ \E expr \in Payloads : alter(MainCaller, expr)
    \/ \E expr \in Payloads : drop_table(MainCaller, expr)
    \/ \E expr \in Payloads : create_database(MainCaller, expr)
    \/ \E expr \in AdminExprs : do_request(MainCaller, expr)
    \/ \E exprs \in SeqsOf(BuiltExprs, 1, MaxExprs) : do_requests(MainCaller, exprs)
    \/ \E answer \in TransportAnswers : TransportAnswer(MainCaller, answer)

\* the inputs of the calls that share one Admin
SharedPayloads == {"p1"}
SharedBatches == {<<BuildExpr("Create", "p1"), BuildExpr("DropTable", "p2")>>}

\* the answers the transport gives them
SharedAnswers ==
    LET r1 == AdminResult(Some(ResponseHeader(0, "")), Some(Mutate(1, 0)))
        r2 == AdminResult(Some(ResponseHeader(1, "boom")), Some(Mutate(0, 0)))
    IN  { Ok([results |-> <<>>]), Ok([results |-> <<r1>>]), Ok([results |-> <<r2>>]),
          Ok([results |-> <<r1, r2>>]),
          Err([kind |-> "Transport", msg |-> "unavailable"]) }

\* several callers use the Admin at once, each call suspended at its await
\* while the others go on
NextShared ==
    \/ \E c \in Callers, expr \in SharedPayloads : create(c, expr)
    \/ \E c \in Callers, expr \in SharedPayloads : alter(c, expr)
    \/ \E c \in Callers, expr \in SharedPayloads : drop_table(c, expr)
    \/ \E c \in Callers, expr \in SharedPayloads : create_database(c, expr)
    \/ \E c \in Callers, expr \in SharedPayloads : do_request(c, BuildExpr("Alter", expr))
    \/ \E c \in Callers, exprs \in SharedBatches : do_requests(c, exprs)
    \/ \E c \in Callers, answer \in SharedAnswers : TransportAnswer(c, answer)

(* ==================== client: admin_result_to_output =================== *)

\* largest status code on the wire
MaxCode == 2
\* largest row count below the u32 limit
MaxRows == 2

\* width of the u32 counts of MutateResult
U32Bits == 32
\* width of usize on the 64-bit target
UsizeBits == 64

\* a large count within u32
BigRowCount == 2 ^ 30

\* StatusCode::Success as u32
StatusCodeSuccess == 0

\* StatusCode::is_success
is_success(code) == code = StatusCodeSuccess

\* as_usize that goes through a 16-bit count
as_usize_Narrow(x) == x % (2 ^ 16)

\* `x as usize` of a u32: zero-extended when usize is at least as wide,
\* truncated to the low bits otherwise
as_usize(x) == IF UsizeBits >= U32Bits THEN x ELSE x % (2 ^ UsizeBits)

StatusCodes == 0 .. MaxCode
ErrMsgs == {"", "boom"}
RowCounts == (0 .. MaxRows) \cup {BigRowCount}

\* every AdminResult handed to the decoder
AdminResults ==
    { AdminResult(h, r) :
        h \in {None} \cup {Some(ResponseHeader(code, msg)) : code \in StatusCodes, msg \in ErrMsgs},
        r \in {None} \cup {Some(Mutate(s, f)) : s \in RowCounts, f \in RowCounts} }

\* error::MissingHeaderSnafu
MissingHeader == [kind |-> "MissingHeader"]

\* error::DatanodeSnafu { code, msg }
Datanode(code, msg) == [kind |-> "Datanode", code |-> code, msg |-> msg]

\* error::MutateFailureSnafu { failure }
MutateFailure(failure) == [kind |-> "MutateFailure", failure |-> failure]

\* admin_result_to_output that looks at the payload before the status
admin_result_to_output_PayloadFirst(admin_result) ==
    IF admin_result.header = None THEN Err(MissingHeader)
    ELSE LET header == Unwrap(admin_result.header) IN
         IF admin_result.result = None THEN Err(MissingResult("result", 1, 0))
         ELSE LET mutate == Unwrap(admin_result.result).Mutate IN
              IF mutate.failure # 0 THEN Err(MutateFailure(mutate.failure))
              ELSE IF ~is_success(header.code) THEN Err(Datanode(header.code, header.err_msg))
              ELSE Ok(AffectedRows(as_usize(mutate.success)))

\* admin_result_to_output that reports the rows that did succeed
admin_result_to_output_Degraded(admin_result) ==
    IF admin_result.header = None THEN Err(MissingHeader)
    ELSE LET header == Unwrap(admin_result.header) IN
         IF ~is_success(header.code) THEN Err(Datanode(header.code, header.err_msg))
         ELSE IF admin_result.result = None THEN Err(MissingResult("result", 1, 0))
         ELSE LET mutate == Unwrap(admin_result.result).Mutate IN
              IF mutate.failure # 0 /\ mutate.success = 0
              THEN Err(MutateFailure(mutate.failure))
              ELSE Ok(AffectedRows(as_usize(mutate.success)))

\* admin_result_to_output that takes an absent payload for no rows
admin_result_to_output_DefaultsToZero(admin_result) ==
    IF admin_result.header = None THEN Err(MissingHeader)
    ELSE LET header == Unwrap(admin_result.header) IN
         IF ~is_success(header.code) THEN Err(Datanode(header.code, header.err_msg))
         ELSE IF admin_result.result = None THEN Ok(AffectedRows(0))
         ELSE LET mutate == Unwrap(admin_result.result).Mutate IN
              IF mutate.failure # 0 THEN Err(MutateFailure(mutate.failure))
              ELSE Ok(AffectedRows(as_usize(mutate.success)))

\* admin_result_to_output that unwraps the payload before the header
admin_result_to_output_ResultFirst(admin_result) ==
    IF admin_result.result = None THEN Err(MissingResult("result", 1, 0))
    ELSE IF admin_result.header = None THEN Err(MissingHeader)
    ELSE LET header == Unwrap(admin_result.header) IN
         IF ~is_success(header.code) THEN Err(Datanode(header.code, header.err_msg))
         ELSE LET mutate == Unwrap(admin_result.result).Mutate IN
              IF mutate.failure # 0 THEN Err(MutateFailure(mutate.failure))
              ELSE Ok(AffectedRows(as_usize(mutate.success)))

\* the decoder
admin_result_to_output(admin_result) ==
    IF admin_result.header = None THEN Err(MissingHeader)
    ELSE LET header == Unwrap(admin_result.header) IN
         IF ~is_success(header.code) THEN Err(Datanode(header.code, header.err_msg))
         ELSE IF admin_result.result = None THEN Err(MissingResult("result", 1, 0))
         ELSE LET mutate == Unwrap(admin_result.result).Mutate IN
              IF mutate.failure # 0 THEN Err(MutateFailure(mutate.failure))
              ELSE Ok(AffectedRows(as_usize(mutate.success)))

InitDecode ==
    /\ decIn \in AdminResults
    /\ decOut = Pending

\* a caller decodes one AdminResult
Decode ==
    /\ decOut = Pending
    /\ decOut' = admin_result_to_output(decIn)
    /\ UNCHANGED <<decIn, hvars, avars>>

NextDecode == Decode

(* =========================== specifications ============================ *)

Init == InitHandler /\ InitAdmin /\ InitDecode

\* drop_table invocations on the datanode
InitDropTable ==
    /\ InitHandler
    /\ InitAdmin /\ admin.name = "greptime"
    /\ InitDecode /\ decIn = AdminResult(None, None)

SpecDropTable == InitDropTable /\ [][NextHandler]_vars

\* the catalog answers the deregister_table call of an invocation
CatalogAnswers(h) == DeregisterOk(h) \/ \E e \in CatalogErrors : DeregisterErr(h, e)

\* the engine answers the drop_table call of an invocation
EngineAnswers(h) == EngineDropOk(h) \/ \E e \in EngineErrors : EngineDropErr(h, e)

\* drop_table invocations whose collaborator calls all return in the end
SpecDropTableFair ==
    /\ InitDropTable
    /\ [][NextHandler]_vars
    /\ \A h \in Handlers : WF_vars(CatalogAnswers(h)) /\ WF_vars(EngineAnswers(h))

\* one call at a time on the Admin
InitAdminCalls ==
    /\ InitHandler
    /\ InitAdmin
    /\ InitDecode /\ decIn = AdminResult(None, None)

SpecAdmin == InitAdminCalls /\ [][NextAdmin]_vars

\* concurrent calls on one shared Admin
SpecShared == InitAdminCalls /\ [][NextShared]_vars

\* the decoder applied to every AdminResult
InitDecoder ==
    /\ InitHandler
    /\ InitAdmin /\ admin.name = "greptime"
    /\ InitDecode

SpecDecode == InitDecoder /\ [][NextDecode]_vars

Next == NextHandler \/ NextAdmin \/ NextDecode

Spec == Init /\ [][Next]_vars
(* ============================== claims ================================= *)

\* a returned value that is an error / a success
IsErr(r) == r # Pending /\ r # Panic /\ ~r.ok
IsOk(r) == r # Pending /\ r # Panic /\ r.ok

\* the table a drop_table invocation is about
KeyOf(h) == <<Unwrap(hreq[h]).catalog_name, Unwrap(hreq[h]).schema_name, Unwrap(hreq[h]).table_name>>

\* its fully qualified name, catalog.schema.table
FullNameOf(h) ==
    Unwrap(hreq[h]).catalog_name \o "." \o Unwrap(hreq[h]).schema_name \o "." \o Unwrap(hreq[h]).table_name

\* C1: once the catalog's deregister_table has failed for an invocation, the
\* engine's drop_table has not been and is never invoked for it (its call
\* count is zero) and the invocation has returned an error.
C1_DeregisterFailureStopsDrop ==
    \A h \in Handlers :
        IsErr(deregAns[h]) =>
            /\ engineCalls[h] = 0
            /\ engineAns[h] = Pending
            /\ hpc[h] = "done"
            /\ IsErr(hret[h])

C1_Witness ==
    \E h \in Handlers : IsErr(deregAns[h]) /\ hpc[h] = "done" /\ deregCalls[h] = 1

\* C2: when deregistration succeeded and the engine's drop failed, the
\* invocation returns the DropTable error carrying the fully qualified table
\* name and the engine's error, the table has no catalog entry, and the
\* catalog was called once only.
C2_EngineFailureLeavesDeregistered ==
    \A h \in Handlers :
        (IsOk(deregAns[h]) /\ IsErr(engineAns[h])) =>
            /\ hpc[h] = "done"
            /\ hret[h] = Err([kind |-> "DropTable", table_name |-> FullNameOf(h),
                               source |-> engineAns[h].err])
            /\ engineAns[h].err \in EngineErrors
            /\ KeyOf(h) \notin registered
            /\ deregCalls[h] = 1

C2_Witness ==
    \E h \in Handlers :
        /\ IsOk(deregAns[h]) /\ IsErr(engineAns[h])
        /\ KeyOf(h) \in stored

\* C3: a finished invocation returned AffectedRows(1) exactly when both the
\* deregistration and the engine's drop succeeded, and an error otherwise;
\* an unfinished one has returned nothing.
C3_SuccessIffBothSteps ==
    \A h \in Handlers :
        /\ hpc[h] # "done" => hret[h] = Pending
        /\ hpc[h] = "done" =>
              /\ (hret[h] = Ok([AffectedRows |-> 1])) <=> (IsOk(deregAns[h]) /\ IsOk(engineAns[h]))
              /\ ~(IsOk(deregAns[h]) /\ IsOk(engineAns[h])) => IsErr(hret[h])

C3_Witness ==
    \E h, g \in Handlers :
        /\ hpc[h] = "done" /\ hret[h] = Ok([AffectedRows |-> 1])
        /\ hpc[g] = "done" /\ IsErr(engineAns[g])

\* the result sequence of the response a call got
ResultsOf(c) == cresp[c].val.results

\* C4: a finished call whose non-empty batch got a response with another
\* number of results returned the count error (MissingResult named
\* "admin_results") with expected = the number of expressions sent and
\* actual = the number of results received.
C4_CountMismatch ==
    \A c \in Callers :
        (/\ cpc[c] = "done"
         /\ Len(cexprs[c]) >= 1
         /\ IsOk(cresp[c])
         /\ Len(ResultsOf(c)) # Len(cexprs[c])) =>
            cret[c] = Err([kind |-> "MissingResult", name |-> "admin_results",
                           expected |-> Len(sent[c][1].exprs),
                           actual |-> Len(ResultsOf(c))])

C4_Witness ==
    \E c \in Callers :
        /\ cpc[c] = "done" /\ centry[c] = "do_requests"
        /\ Len(cexprs[c]) = 2
        /\ IsOk(cresp[c]) /\ Len(ResultsOf(c)) = 3

\* C5: a single-expression call whose response has any number of results
\* other than one never executes remove(0): it returns the count error, and
\* no call panics.
C5_NoExtractionOnMismatch ==
    \A c \in Callers :
        /\ cret[c] # Panic
        /\ (/\ cpc[c] = "done"
             /\ centry[c] \in {"create", "alter", "drop_table", "create_database", "do_request"}
             /\ IsOk(cresp[c])
             /\ Len(ResultsOf(c)) # 1) =>
                /\ ~removed[c]
                /\ IsErr(cret[c])
                /\ cret[c].err.kind = "MissingResult"
                /\ cret[c].err.name = "admin_results"

C5_Witness ==
    \E c \in Callers :
        /\ cpc[c] = "done" /\ centry[c] = "create_database"
        /\ IsOk(cresp[c]) /\ Len(ResultsOf(c)) = 0
        /\ ~removed[c]

\* the typed single-expression entry points
TypedEntries == {"create", "alter", "drop_table", "create_database"}

\* a typed call that got a response of exactly one result
SingleAnswered(c) ==
    /\ cpc[c] = "done"
    /\ centry[c] \in TypedEntries
    /\ IsOk(cresp[c])
    /\ Len(ResultsOf(c)) = 1

\* C6 as stated: a typed single-expression call that got a response of one
\* result returns the decoded Output of that result.
C6_ReturnsDecodedOutput ==
    \A c \in Callers :
        SingleAnswered(c) => cret[c] = admin_result_to_output(ResultsOf(c)[1])

\* C6 amended: a typed single-expression call that got a response of one
\* result returns Ok of that very AdminResult, undecoded and unchanged,
\* whatever its header and payload are.
C6_ReturnsTheSingleResult ==
    \A c \in Callers :
        SingleAnswered(c) => (cret[c] = Ok(ResultsOf(c)[1]) /\ removed[c])

C6_Witness ==
    \E c \in Callers :
        /\ SingleAnswered(c)
        /\ ResultsOf(c)[1].header # None
        /\ Unwrap(ResultsOf(c)[1].header).code # 0

\* C7: a finished batched submission of N expressions either returned
\* exactly the response's results (N of them, same order) or returned an
\* error and no results.
C7_NoPartialOutcome ==
    \A c \in Callers :
        (cpc[c] = "done" /\ centry[c] = "do_requests") =>
            \/ /\ IsOk(cresp[c])
               /\ Len(ResultsOf(c)) = Len(cexprs[c])
               /\ cret[c] = Ok(ResultsOf(c))
            \/ /\ IsErr(cret[c])
               /\ (IsErr(cresp[c]) \/ Len(ResultsOf(c)) # Len(cexprs[c]))

C7_Witness ==
    \E c \in Callers :
        /\ cpc[c] = "done" /\ centry[c] = "do_requests"
        /\ Len(cexprs[c]) = 2
        /\ IsOk(cret[c]) /\ Len(cret[c].val) = 2
        /\ cret[c].val[1] # cret[c].val[2]

\* the variant each typed entry point wraps its payload in
VariantOf(entry) ==
    CASE entry = "create" -> "Create"
      [] entry = "alter" -> "Alter"
      [] entry = "drop_table" -> "DropTable"
      [] entry = "create_database" -> "CreateDatabase"

\* C8: a typed call has sent exactly one request; it carries the Admin's
\* name and exactly one expression: the entry point's variant around the
\* caller's payload, under a header with version PROTOCOL_VERSION.
C8_SingleExpressionRequest ==
    \A c \in Callers :
        (centry[c] \in TypedEntries /\ cpc[c] # "idle") =>
            /\ Len(sent[c]) = 1
            /\ sent[c][1].name = admin.name
            /\ Len(sent[c][1].exprs) = 1
            /\ sent[c][1].exprs[1] =
                  [header |-> <<[version |-> PROTOCOL_VERSION]>>,
                   expr |-> <<[variant |-> VariantOf(centry[c]), payload |-> Unwrap(carg[c])]>>]

C8_Witness ==
    \E c \in Callers :
        /\ centry[c] = "alter" /\ cpc[c] = "done"
        /\ admin.name = "admin" /\ carg[c] = <<"p2">>

\* C9: decoding a result whose header carries a non-success status code
\* fails with the Datanode error carrying that code and that message,
\* whether or not a mutate outcome is present.
C9_NonSuccessStatus ==
    (/\ decOut # Pending
     /\ decIn.header # None
     /\ ~is_success(Unwrap(decIn.header).code)) =>
        decOut = Err([kind |-> "Datanode",
                      code |-> Unwrap(decIn.header).code,
                      msg |-> Unwrap(decIn.header).err_msg])

C9_Witness ==
    /\ decOut # Pending
    /\ decIn.header # None
    /\ ~is_success(Unwrap(decIn.header).code)
    /\ decIn.result # None
    /\ Unwrap(decIn.result).Mutate.failure # 0

\* C10: decoding a result with a success status and a mutate outcome whose
\* failure count f is not zero fails with MutateFailure carrying f, for
\* every success count.
C10_MutateFailure ==
    (/\ decOut # Pending
     /\ decIn.header # None
     /\ is_success(Unwrap(decIn.header).code)
     /\ decIn.result # None
     /\ Unwrap(decIn.result).Mutate.failure # 0) =>
        decOut = Err([kind |-> "MutateFailure", failure |-> Unwrap(decIn.result).Mutate.failure])

C10_Witness ==
    /\ decOut # Pending
    /\ decIn.header # None
    /\ is_success(Unwrap(decIn.header).code)
    /\ decIn.result # None
    /\ Unwrap(decIn.result).Mutate.failure = 2
    /\ Unwrap(decIn.result).Mutate.success = 1

\* the decoder has run on a result with a present header of success status
DecodedUnderSuccess ==
    /\ decOut # Pending
    /\ decIn.header # None
    /\ is_success(Unwrap(decIn.header).code)

\* C11: decoding a result with a success status and a mutate outcome with
\* failure count 0 and success count n returns AffectedRows(n), the count
\* unchanged, for every n of the payload's range.
C11_AffectedRowsIsSuccessCount ==
    (/\ DecodedUnderSuccess
     /\ decIn.result # None
     /\ Unwrap(decIn.result).Mutate.failure = 0) =>
        decOut = Ok([AffectedRows |-> Unwrap(decIn.result).Mutate.success])

C11_Witness ==
    /\ DecodedUnderSuccess
    /\ decIn.result # None
    /\ Unwrap(decIn.result).Mutate.failure = 0
    /\ Unwrap(decIn.result).Mutate.success = BigRowCount

\* C12 as stated: decoding a result with no outcome payload fails with
\* MissingResult named "result", expected 1, actual 0.
C12_NoPayloadIsMissingResult ==
    (decOut # Pending /\ decIn.result = None) =>
        decOut = Err([kind |-> "MissingResult", name |-> "result", expected |-> 1, actual |-> 0])

\* C12 amended: decoding a result with a present header of success status
\* and no outcome payload fails with MissingResult named "result",
\* expected 1, actual 0.
C12_NoPayloadUnderSuccess ==
    (DecodedUnderSuccess /\ decIn.result = None) =>
        decOut = Err([kind |-> "MissingResult", name |-> "result", expected |-> 1, actual |-> 0])

C12_Witness == DecodedUnderSuccess /\ decIn.result = None /\ IsErr(decOut)

\* the four conditions the decoder rejects a result for
NoHeader == decIn.header = None
BadStatus == decIn.header # None /\ ~is_success(Unwrap(decIn.header).code)
NoPayload == decIn.result = None
RowsFailed == decIn.result # None /\ Unwrap(decIn.result).Mutate.failure # 0

\* the kind of the error the decoder returned
DecodedErrorIs(kind) == IsErr(decOut) /\ decOut.err.kind = kind

\* C16: the decoder applies its checks in a fixed precedence: an absent
\* header gives MissingHeader whatever the payload; otherwise a non-success
\* status gives the Datanode error whatever the payload; otherwise an absent
\* payload gives MissingResult; otherwise a non-zero failure count gives
\* MutateFailure; an Output is returned exactly when none of the four holds.
C16_DecoderPrecedence ==
    decOut # Pending =>
        /\ NoHeader => DecodedErrorIs("MissingHeader")
        /\ BadStatus => DecodedErrorIs("Datanode")
        /\ (~NoHeader /\ ~BadStatus /\ NoPayload) => DecodedErrorIs("MissingResult")
        /\ (~NoHeader /\ ~BadStatus /\ RowsFailed) => DecodedErrorIs("MutateFailure")
        /\ IsOk(decOut) <=> ~(NoHeader \/ BadStatus \/ NoPayload \/ RowsFailed)

C16_Witness ==
    /\ decOut # Pending
    /\ NoHeader
    /\ NoPayload
    /\ DecodedErrorIs("MissingHeader")

\* C13: an invocation issues at most one deregister_table call and at most
\* one engine drop_table call, whatever its outcome; a finished invocation
\* that failed issued exactly the calls up to the failing one.
C13_AtMostOneCallEach ==
    \A h \in Handlers :
        /\ deregCalls[h] <= 1
        /\ engineCalls[h] <= 1
        /\ IsErr(deregAns[h]) => (deregCalls[h] = 1 /\ engineCalls[h] = 0)
        /\ IsErr(engineAns[h]) => (deregCalls[h] = 1 /\ engineCalls[h] = 1)

C13_Witness ==
    \E h, g \in Handlers :
        /\ hpc[h] = "done" /\ IsErr(deregAns[h])
        /\ hpc[g] = "done" /\ IsErr(engineAns[g])
        /\ hreq[h] = hreq[g]

\* C14: under every interleaving of drop_table invocations, a table that
\* still has its catalog entry still has its physical storage.
C14_NeverVisibleWithoutStorage ==
    \A t \in AllTables : t \in registered => t \in stored

C14_Witness ==
    \E h, g \in Handlers :
        /\ h # g
        /\ hreq[h] = hreq[g]
        /\ hpc[h] = "done" /\ IsErr(engineAns[h])
        /\ hpc[g] = "done" /\ IsOk(engineAns[g])
        /\ KeyOf(h) \notin registered
        /\ KeyOf(h) \notin stored

\* a collaborator call of an invocation is issued and not yet answered
DeregisterInFlight(h) == deregCalls[h] >= 1 /\ deregAns[h] = Pending
EngineDropInFlight(h) == engineCalls[h] >= 1 /\ engineAns[h] = Pending

\* C15: within one invocation the engine's drop_table is issued only once
\* deregister_table has answered Ok, and the two calls are never in flight
\* together.
C15_StepsAreSequential ==
    \A h \in Handlers :
        /\ engineCalls[h] >= 1 => IsOk(deregAns[h])
        /\ ~(DeregisterInFlight(h) /\ EngineDropInFlight(h))

C15_Witness ==
    \E h \in Handlers : EngineDropInFlight(h) /\ IsOk(deregAns[h]) /\ hpc[h] = "dropping"

\* C19: a finished invocation that failed returned the DropTable error with
\* the fully qualified name of its request and the failing collaborator's
\* error as the cause, so that a failure at the catalog and a failure at the
\* engine on the same request differ in the cause only.
C19_SameErrorBothSteps ==
    /\ \A h \in Handlers :
          (hpc[h] = "done" /\ IsErr(hret[h])) =>
              /\ hret[h].err.kind = "DropTable"
              /\ hret[h].err.table_name = FullNameOf(h)
              /\ IsErr(deregAns[h]) => hret[h].err.source = deregAns[h].err
              /\ IsOk(deregAns[h]) => (IsErr(engineAns[h]) /\ hret[h].err.source = engineAns[h].err)
    /\ \A h, g \in Handlers :
          (/\ hpc[h] = "done" /\ hpc[g] = "done"
           /\ hreq[h] = hreq[g]
           /\ IsErr(deregAns[h]) /\ IsErr(engineAns[g])) =>
              /\ hret[h].err.kind = hret[g].err.kind
              /\ hret[h].err.table_name = hret[g].err.table_name

C19_Witness ==
    \E h, g \in Handlers :
        /\ hpc[h] = "done" /\ hpc[g] = "done"
        /\ hreq[h] = hreq[g]
        /\ IsErr(deregAns[h]) /\ IsErr(engineAns[g])
        /\ Unwrap(hreq[h]).schema_name = "demo"

\* the three final states of an invocation
FailedAtDeregister(h) == IsErr(hret[h]) /\ IsErr(deregAns[h]) /\ engineAns[h] = Pending
FailedAtDrop(h) == IsErr(hret[h]) /\ IsOk(deregAns[h]) /\ IsErr(engineAns[h])
Succeeded(h) == IsOk(hret[h]) /\ IsOk(deregAns[h]) /\ IsOk(engineAns[h])

\* exactly one of the three
InOneFinalState(h) ==
    /\ hpc[h] = "done"
    /\ FailedAtDeregister(h) \/ FailedAtDrop(h) \/ Succeeded(h)
    /\ ~(FailedAtDeregister(h) /\ FailedAtDrop(h))
    /\ ~(FailedAtDeregister(h) /\ Succeeded(h))
    /\ ~(FailedAtDrop(h) /\ Succeeded(h))

\* C20: when every collaborator call returns in the end, every invocation
\* that was entered ends in exactly one of the three final states (failed at
\* deregistration, failed at the physical drop, succeeded), and until then
\* it waits on the catalog or on the engine and on nothing else.
C20_EveryInvocationTerminates ==
    /\ [](\A h \in Handlers :
            /\ hpc[h] \in {"idle", "deregistering", "dropping", "done"}
            /\ hpc[h] = "deregistering" => DeregisterInFlight(h)
            /\ hpc[h] = "dropping" => EngineDropInFlight(h)
            /\ hpc[h] = "done" => InOneFinalState(h))
    /\ \A h \in Handlers : (hpc[h] = "deregistering") ~> InOneFinalState(h)

C20_Witness ==
    \E h, g \in Handlers :
        /\ InOneFinalState(h) /\ FailedAtDrop(h)
        /\ InOneFinalState(g) /\ FailedAtDeregister(g)

\* C17: a call has sent nothing before it is entered and exactly one request
\* from then on; while it awaits it has no response and no return value; once
\* done it has got exactly one answer: a transport failure is returned as it
\* is, and the count error is returned only for a response received to the
\* one request sent.
C17_OneRoundTrip ==
    \A c \in Callers :
        /\ cpc[c] = "idle" => (Len(sent[c]) = 0 /\ cresp[c] = Pending /\ cret[c] = Pending)
        /\ cpc[c] = "awaiting" =>
              /\ Len(sent[c]) = 1
              /\ sent[c][1].exprs = cexprs[c]
              /\ cresp[c] = Pending
              /\ cret[c] = Pending
        /\ cpc[c] = "done" =>
              /\ Len(sent[c]) = 1
              /\ cresp[c] # Pending
              /\ cret[c] # Pending
              /\ IsErr(cresp[c]) => cret[c] = cresp[c]
              /\ (IsErr(cret[c]) /\ IsOk(cresp[c])) =>
                    /\ cret[c].err.kind = "MissingResult"
                    /\ Len(ResultsOf(c)) # Len(sent[c][1].exprs)

C17_Witness ==
    \E c \in Callers :
        /\ cpc[c] = "done" /\ centry[c] = "do_requests"
        /\ IsErr(cresp[c])
        /\ Len(sent[c]) = 1 /\ Len(sent[c][1].exprs) = 2

\* what a finished call returns, from its own request and its own response
OwnOutcome(c) ==
    IF IsErr(cresp[c]) THEN cresp[c]
    ELSE IF Len(ResultsOf(c)) # Len(sent[c][1].exprs)
         THEN Err([kind |-> "MissingResult", name |-> "admin_results",
                   expected |-> Len(sent[c][1].exprs), actual |-> Len(ResultsOf(c))])
         ELSE IF centry[c] = "do_requests" THEN Ok(ResultsOf(c)) ELSE Ok(ResultsOf(c)[1])

\* C18: with several calls on one shared Admin in flight at once, under
\* every interleaving a finished call returned what its own request and the
\* response to it determine, and no step changes the Admin (name, transport
\* handle).
C18_CallsAreIndependent ==
    /\ [](\A c \in Callers :
            /\ cpc[c] # "idle" => (Len(sent[c]) = 1 /\ sent[c][1] = [name |-> admin.name, exprs |-> cexprs[c]])
            /\ cpc[c] = "done" => cret[c] = OwnOutcome(c))
    /\ [][admin' = admin]_vars

C18_Witness ==
    \E c, d \in Callers :
        /\ c # d
        /\ cpc[c] = "done" /\ IsOk(cret[c])
        /\ cpc[d] = "done" /\ IsErr(cret[d])
        /\ cresp[c] # cresp[d]
        /\ centry[c] = centry[d]
====
